---- MODULE Spec2Model ----
(***************************************************************************)
(* Graph assembly pipeline of webnn_native: the operand / operator data    *)
(* model (Operand.cpp), the validate-or-poison construction entry points,  *)
(* the clamp rewrite of Conv2d and BatchNorm, GraphBuilderBase::Build and  *)
(* GraphBuilderBase::TopologicalSort (GraphBuilder.cpp), and               *)
(* op::Unary::Validate (ops/Unary.cpp).                                    *)
(*                                                                         *)
(* Objects are table rows.  operands[i] is an OperandBase, operators[j] an *)
(* OperatorBase that passed Validate() (an operator whose validation fails *)
(* is released when the entry point returns and leaves no row).            *)
(***************************************************************************)
EXTENDS Integers, Sequences, FiniteSets, TLC

(* ---------------------------------------------------------------- bounds *)
\* Operand objects (error sentinels included) one session may create.
MaxOperands == 3
\* The same for a session of the end-to-end scenario, which builds four operands.
MaxScenarioOperands == 4
\* Operators of a graph handed to TopologicalSort as it stands.
MaxSortOperators == 2
\* Entries of the work stack beyond which a traversal is not followed further.
MaxStack == 8

(* ------------------------------------------------------------- constants *)
\* The null OperatorBase*: mOperator of an operand built with ErrorTag.
NullOp == 0
\* mRank(0) of the member initialiser list.
DefaultRank == 0
\* The only input rank op::Unary::Validate accepts for kSoftmax.
SoftmaxRank == 2
\* The operands op::Binary is built on, the most among the kinds of the model.
BinaryInputs == 2

DefaultType == "Float32"
Types == {"Float32", "Int32"}
Ranks == {2, 3}
\* Names a NamedOperands map may use, in the iteration order of GetRecords().
Names == <<"out1", "out2">>

UnaryKinds == {"Relu", "Softmax"}

\* The fused-operator handle an options struct may carry (options->activation);
\* fused is what GetFusedOperator() answers, minValue / maxValue what
\* op::Clamp::GetOptions() answers.
NoActivation == [fused |-> "None", minValue |-> 0, maxValue |-> 0]
Activations ==
    { [fused |-> "Relu", minValue |-> 0, maxValue |-> 0],
      [fused |-> "Clamp", minValue |-> 0, maxValue |-> 6],
      [fused |-> "Clamp", minValue |-> 1, maxValue |-> 3] }

VARIABLES
    operands,       \* Seq of [err, op, type, rank]: every OperandBase handed out or held
    operators,      \* Seq of [kind, inputs, out, n, activation, minValue, maxValue]: outputs out..out+n-1
    builderError,   \* GraphBuilderBase::IsError()
    lastCall,       \* the entry point called last, its arguments and what it returned
    pc,             \* position of the (single) client thread
    namedOperands,  \* Build: namedOperands->GetRecords(), Seq of [name, operand]
    nodesToDo,      \* TopologicalSort: the stack, top is the last element
    nodesDone,      \* TopologicalSort: the finalized set
    result,         \* TopologicalSort: the result vector
    sorted,         \* Build: sorted_operands
    idx,            \* Build: position of the running for loop
    graphs,         \* Build: number of CreateGraph() calls of this Build
    calls,          \* Build: backend calls of this Build, Seq of [fn, arg, ok]
    sortCalls,      \* Build: number of TopologicalSort calls of this Build
    buildResult,    \* Build: "none" while running, then "null" or "graph"
    deferred,       \* TopologicalSort: log of the deferrals of this run, Seq of [node, open]
    prev,           \* the sort result of the Build before, when this Build repeats it
    limit           \* the number of operand objects the client of this session creates at most

vars == <<operands, operators, builderError, lastCall, pc, namedOperands, nodesToDo,
          nodesDone, result, sorted, idx, graphs, calls, sortCalls, buildResult, deferred, prev,
          limit>>

(* --------------------------------------------------------------- helpers *)
Range(s) == { s[i] : i \in 1..Len(s) }

NoPrev == [some |-> FALSE, sorted |-> <<>>]
NoCtor == [n |-> 0, in0 |-> 0, type |-> DefaultType, rank |-> DefaultRank]
NoCall == [fn |-> "none", args |-> <<>>, activation |-> NoActivation, given |-> <<>>,
           checks |-> <<>>, ret |-> 0, ctor |-> NoCtor, ops0 |-> 0,
           kind |-> "none", retErr |-> FALSE, rets |-> <<>>, validated |-> <<>>]

(* ------------------------------------------------------------ Operand.cpp *)
\* OperandBase(graphBuilder, ErrorTag): mOperator is null, mType and mRank are
\* never written.
ErrorOperand == [err |-> TRUE, op |-> NullOp, type |-> "uninitialized", rank |-> -1]

\* primaryInput->Type() / Rank(): of an error operand this reads a member no
\* constructor wrote, so the value is whatever the build leaves there (gt, gr).
ReadType(x, gt) == IF operands[x].err THEN gt ELSE operands[x].type
ReadRank(x, gr) == IF operands[x].err THEN gr ELSE operands[x].rank

\* What such a read may yield, for the reads of a constructor given ins.
GarbageTypes(ins) == IF \E i \in 1..Len(ins) : operands[ins[i]].err THEN Types ELSE {DefaultType}
GarbageRanks(ins) == IF \E i \in 1..Len(ins) : operands[ins[i]].err THEN Ranks ELSE {DefaultRank}

\* A faulty constructor: the defaults are kept whatever the inputs are.
OperandBaseCtorDefaults(ins, gt, gr) ==
    [n |-> Len(ins), in0 |-> IF Len(ins) >= 1 THEN ins[1] ELSE 0,
     type |-> DefaultType, rank |-> DefaultRank]

\* OperandBase(graphBuilder, operatorBase): type and rank of the new operand.
OperandBaseCtor(ins, gt, gr) ==
    IF Len(ins) >= 1
    THEN [n |-> Len(ins), in0 |-> ins[1],
          type |-> ReadType(ins[1], gt), rank |-> ReadRank(ins[1], gr)]
    ELSE [n |-> 0, in0 |-> 0, type |-> DefaultType, rank |-> DefaultRank]

(* ------------------------------------------------------------- validation *)
\* OperatorBase::Validate(): an operator with an error input is invalid.
OperatorBaseValidate(ins) == \A i \in 1..Len(ins) : ~operands[ins[i]].err

\* A faulty Validate: the base validation is skipped.
UnaryValidateNoBase(kind, ins) ==
    IF kind = "Softmax" /\ ~operands[ins[1]].err
    THEN operands[ins[1]].rank = SoftmaxRank
    ELSE TRUE

\* A faulty Validate: softmax takes any input of rank two or more.
UnaryValidateRankAtLeast(kind, ins) ==
    IF \E i \in 1..Len(ins) : operands[ins[i]].err
    THEN FALSE
    ELSE IF kind = "Softmax"
         THEN operands[ins[1]].rank >= SoftmaxRank
         ELSE TRUE

\* op::Unary::Validate()
UnaryValidate(kind, ins) ==
    IF ~OperatorBaseValidate(ins)
    THEN FALSE
    ELSE IF kind = "Softmax"
         THEN operands[ins[1]].rank = SoftmaxRank
         ELSE TRUE

\* Validate() of the kinds defined outside GraphBuilder.cpp, Operand.cpp and Unary.cpp: the base
\* validation first, then the kind's own checks, whose verdict is kindOk.
KindValidate(ins, kindOk) == OperatorBaseValidate(ins) /\ kindOk

(* ------------------------------------------------- construction protocol *)
\* Rows of the objects a construction call allocates.
OpRow(kind, ins, act, mn, mx, at) ==
    [kind |-> kind, inputs |-> ins, out |-> Len(operands) + 1 + at, n |-> 1,
     activation |-> act, minValue |-> mn, maxValue |-> mx]
OutRow(t, r, at) ==
    [err |-> FALSE, op |-> Len(operators) + 1 + at, type |-> t, rank |-> r]

Tables(ops, outs) == [operators |-> ops, operands |-> outs]

\* OperandBase::MakeError(this): the tables after an error sentinel is returned.
MakeError == Tables(operators, Append(operands, ErrorOperand))

\* A faulty macro: the verdict of Validate() is ignored.
DawnValidateUnchecked(valid, kept) == kept

\* DAWN_VALIDATE and the return of VALIDATE_FOR_OPERAND: on a validation error
\* the error sentinel, else the operator stays and its primary output is
\* returned (kept: the tables holding the operator and its output).
DawnValidate(valid, kept) == IF valid THEN kept ELSE MakeError

\* A construction entry point may run between two Build calls.
CanConstruct(k) ==
    /\ pc \in {"idle", "returned"}
    /\ Len(operands) + k <= limit

\* The locals of Build and TopologicalSort do not outlive the call.
ResetBuild ==
    /\ namedOperands' = <<>>
    /\ nodesToDo' = <<>>
    /\ nodesDone' = {}
    /\ result' = <<>>
    /\ sorted' = <<>>
    /\ idx' = 0
    /\ graphs' = 0
    /\ calls' = <<>>
    /\ sortCalls' = 0
    /\ buildResult' = "none"
    /\ deferred' = <<>>
    /\ prev' = NoPrev

\* A faulty entry point: every Validate() is called on the operator allocated first.
ValidatedFirstOnly(checks) == [i \in 1..Len(checks) |-> 1]

\* The operators an entry point calls Validate() on, in call order, numbered in
\* the order it allocated them: DAWN_VALIDATE validates the pointer it is given.
ValidatedBy(checks) == [i \in 1..Len(checks) |-> i]

\* The return of an entry point of result kind OperandBase*.
Returned(fn, args, act, given, checks, ctor, tabs) ==
    /\ operators' = tabs.operators
    /\ operands' = tabs.operands
    /\ lastCall' = [fn |-> fn, args |-> args, activation |-> act, given |-> given,
                    checks |-> checks, ret |-> Len(tabs.operands), ctor |-> ctor,
                    ops0 |-> Len(operators),
                    kind |-> "operand", retErr |-> tabs.operands[Len(tabs.operands)].err,
                    rets |-> <<Len(tabs.operands)>>, validated |-> ValidatedBy(checks)]
    /\ pc' = "idle"
    /\ ResetBuild
    /\ UNCHANGED <<builderError, limit>>

OperandIds == 1..Len(operands)

\* GraphBuilderBase::Input: op::Input takes type and rank from the descriptor.
Input(desc, descOk) ==
    /\ CanConstruct(1)
    /\ LET ctor  == OperandBaseCtor(<<>>, DefaultType, DefaultRank)
           valid == KindValidate(<<>>, descOk)
           kept  == Tables(Append(operators, OpRow("Input", <<>>, NoActivation, 0, 0, 0)),
                           Append(operands, OutRow(desc.type, desc.rank, 0)))
       IN Returned("Input", <<>>, NoActivation, <<descOk>>, <<valid>>, ctor,
                   DawnValidate(valid, kept))

\* GraphBuilderBase::Relu / Sigmoid / Tanh / HardSwish / Softmax
Unary(kind, x) ==
    /\ CanConstruct(1)
    /\ \E gt \in GarbageTypes(<<x>>), gr \in GarbageRanks(<<x>>) :
         LET ctor  == OperandBaseCtor(<<x>>, gt, gr)
             valid == UnaryValidate(kind, <<x>>)
             kept  == Tables(Append(operators, OpRow(kind, <<x>>, NoActivation, 0, 0, 0)),
                             Append(operands, OutRow(ctor.type, ctor.rank, 0)))
         IN Returned(kind, <<x>>, NoActivation, <<>>, <<valid>>, ctor,
                     DawnValidate(valid, kept))

Max2(a, b) == IF a >= b THEN a ELSE b

\* GraphBuilderBase::Matmul / Add / Sub / ...: op::Binary recomputes the rank
\* of its output (broadcasting), the type stays that of input 0.
Binary(kind, a, b, kindOk) ==
    /\ CanConstruct(1)
    /\ \E gt \in GarbageTypes(<<a, b>>), gr \in GarbageRanks(<<a, b>>) :
         LET ctor  == OperandBaseCtor(<<a, b>>, gt, gr)
             valid == KindValidate(<<a, b>>, kindOk)
             rank  == Max2(ReadRank(a, gr), ReadRank(b, gr))
             kept  == Tables(Append(operators, OpRow(kind, <<a, b>>, NoActivation, 0, 0, 0)),
                             Append(operands, OutRow(ctor.type, rank, 0)))
         IN Returned(kind, <<a, b>>, NoActivation, <<kindOk>>, <<valid>>, ctor,
                     DawnValidate(valid, kept))

\* GraphBuilderBase::Clamp
Clamp(x, mn, mx, kindOk) ==
    /\ CanConstruct(1)
    /\ \E gt \in GarbageTypes(<<x>>), gr \in GarbageRanks(<<x>>) :
         LET ctor  == OperandBaseCtor(<<x>>, gt, gr)
             valid == KindValidate(<<x>>, kindOk)
             kept  == Tables(Append(operators, OpRow("Clamp", <<x>>, NoActivation, mn, mx, 0)),
                             Append(operands, OutRow(ctor.type, ctor.rank, 0)))
         IN Returned("Clamp", <<x>>, NoActivation, <<kindOk>>, <<valid>>, ctor,
                     DawnValidate(valid, kept))

\* Conv2dOptions const*: a null pointer, or a struct whose activation may be null.
NullOptions == [null |-> TRUE, activation |-> NoActivation]
Conv2dOptions ==
    {NullOptions} \cup { [null |-> FALSE, activation |-> a] : a \in {NoActivation} \cup Activations }

\* A faulty test: the clamp activation is left to the convolution like any other.
LeftToTheOperator(options) == FALSE

\* The test that sends Conv2d to the clamp rewrite.
IsClampActivation(options) ==
    /\ ~options.null
    /\ options.activation # NoActivation
    /\ options.activation.fused = "Clamp"

\* GraphBuilderBase::Conv2d
Conv2d(input, filter, options, convOk, clampOk) ==
    \E gt \in GarbageTypes(<<input, filter>>), gr \in GarbageRanks(<<input, filter>>) :
      LET ins     == <<input, filter>>
          ctor    == OperandBaseCtor(ins, gt, gr)
          valid   == KindValidate(ins, convOk)
          conv    == OpRow("Conv2d", ins, options.activation, 0, 0, 0)
          convOut == OutRow(ctor.type, ctor.rank, 0)
          withConv == Tables(Append(operators, conv), Append(operands, convOut))
      IN IF IsClampActivation(options)
         THEN IF ~valid
              THEN /\ CanConstruct(1)
                   /\ Returned("Conv2d", ins, options.activation, <<convOk>>,
                               <<valid>>, ctor, MakeError)
              ELSE \* the clamp consumes conv2d->PrimaryOutput(), a non-error operand
                   LET clampValid == clampOk
                       clamp    == OpRow("Clamp", <<Len(operands) + 1>>, NoActivation,
                                         options.activation.minValue,
                                         options.activation.maxValue, 1)
                       clampOut == OutRow(convOut.type, convOut.rank, 1)
                       kept     == Tables(Append(withConv.operators, clamp),
                                          Append(withConv.operands, clampOut))
                   IN /\ CanConstruct(IF clampValid THEN 2 ELSE 1)
                      /\ Returned("Conv2d", ins, options.activation, <<convOk, clampOk>>,
                                  <<valid, clampValid>>, ctor, DawnValidate(clampValid, kept))
         ELSE /\ CanConstruct(1)
              /\ Returned("Conv2d", ins, options.activation, <<convOk>>, <<valid>>, ctor,
                          DawnValidate(valid, withConv))

\* BatchNormOptions const*: like Conv2dOptions, a null pointer or a struct whose
\* activation may be null.
BatchNormOptions == Conv2dOptions

\* A faulty rewrite: the clamp is built whatever the base validation says.
BaseNeverRejected(valid) == FALSE

\* if (GetContext()->ConsumedError(batchNorm->Validate())) return MakeError
BaseRejected(valid) == ~valid

\* GraphBuilderBase::BatchNorm
BatchNorm(input, mean, variance, options, bnOk, clampOk) ==
    \E gt \in GarbageTypes(<<input, mean, variance>>),
       gr \in GarbageRanks(<<input, mean, variance>>) :
      LET ins    == <<input, mean, variance>>
          ctor   == OperandBaseCtor(ins, gt, gr)
          valid  == KindValidate(ins, bnOk)
          bn     == OpRow("BatchNorm", ins, options.activation, 0, 0, 0)
          bnOut  == OutRow(ctor.type, ctor.rank, 0)
          withBn == Tables(Append(operators, bn), Append(operands, bnOut))
      IN IF IsClampActivation(options)
         THEN IF BaseRejected(valid)
              THEN /\ CanConstruct(1)
                   /\ Returned("BatchNorm", ins, options.activation, <<bnOk>>,
                               <<valid>>, ctor, MakeError)
              ELSE \* the clamp consumes batchNorm->PrimaryOutput()
                   LET clampValid == clampOk
                       clamp    == OpRow("Clamp", <<Len(operands) + 1>>, NoActivation,
                                         options.activation.minValue,
                                         options.activation.maxValue, 1)
                       clampOut == OutRow(bnOut.type, bnOut.rank, 1)
                       kept     == Tables(Append(withBn.operators, clamp),
                                          Append(withBn.operands, clampOut))
                   IN /\ CanConstruct(IF clampValid THEN 2 ELSE 1)
                      /\ Returned("BatchNorm", ins, options.activation, <<bnOk, clampOk>>,
                                  <<valid, clampValid>>, ctor, DawnValidate(clampValid, kept))
         ELSE /\ CanConstruct(1)
              /\ Returned("BatchNorm", ins, options.activation, <<bnOk>>, <<valid>>, ctor,
                          DawnValidate(valid, withBn))

\* The return of an entry point of result kind OperatorBase* (a fused-operator
\* handle) or OperandArrayBase* (an operand collection): ret is the operator
\* handed out, rets the operands of the collection; the error sentinel of
\* either kind is an object of its own that holds neither.
ReturnedOther(fn, kind, args, given, checks, ctor, tabs, ret, rets) ==
    /\ operators' = tabs.operators
    /\ operands' = tabs.operands
    /\ lastCall' = [fn |-> fn, args |-> args, activation |-> NoActivation, given |-> given,
                    checks |-> checks, ret |-> ret, ctor |-> ctor, ops0 |-> Len(operators),
                    kind |-> kind, retErr |-> ~checks[Len(checks)],
                    rets |-> rets, validated |-> ValidatedBy(checks)]
    /\ pc' = "idle"
    /\ ResetBuild
    /\ UNCHANGED <<builderError, limit>>

\* DAWN_VALIDATE in VALIDATE_FUSED_OPERATOR and VALIDATE_ARRAY_OPERAND: on a
\* validation error the operator is released and the tables stay as they were.
DawnValidateOther(valid, kept) == IF valid THEN kept ELSE Tables(operators, operands)

\* GraphBuilderBase::ClampOperator: an operator without inputs, built to be
\* named as the activation of another operator; it produces no operand.
ClampOperator(mn, mx, kindOk) ==
    /\ CanConstruct(0)
    /\ Len(operators) < limit
    /\ LET valid == KindValidate(<<>>, kindOk)
           row   == [OpRow("Clamp", <<>>, NoActivation, mn, mx, 0) EXCEPT !.out = 0, !.n = 0]
           kept  == Tables(Append(operators, row), operands)
       IN ReturnedOther("ClampOperator", "operator", <<>>, <<kindOk>>, <<valid>>, NoCtor,
                        DawnValidateOther(valid, kept),
                        IF valid THEN Len(operators) + 1 ELSE NullOp, <<>>)

\* GraphBuilderBase::Split: one operator with count outputs, each an operand
\* built by OperandBase's constructor; the collection holds op->Outputs().
Split(x, count, kindOk) ==
    \E gt \in GarbageTypes(<<x>>), gr \in GarbageRanks(<<x>>) :
      LET ctor  == OperandBaseCtor(<<x>>, gt, gr)
          valid == KindValidate(<<x>>, kindOk)
          row   == [OpRow("Split", <<x>>, NoActivation, 0, 0, 0) EXCEPT !.n = count]
          outs  == [i \in 1..count |-> OutRow(ctor.type, ctor.rank, 0)]
          kept  == Tables(Append(operators, row), operands \o outs)
      IN /\ CanConstruct(IF valid THEN count ELSE 0)
         /\ ReturnedOther("Split", "array", <<x>>, <<kindOk>>, <<valid>>, ctor,
                          DawnValidateOther(valid, kept), NullOp,
                          IF valid THEN [i \in 1..count |-> Len(operands) + i] ELSE <<>>)

(* ------------------------------------------------------- TopologicalSort *)
Inputs(node) == operators[node].inputs
\* OperandBase::Operator()
Producer(x) == operands[x].op

\* A faulty loop: only the first root is pushed.
FirstRootOnly(outputs) == <<Producer(outputs[1])>>

\* for (auto node : rootNodes) nodesToDo.push(node->Operator());
RootOperators(outputs) == [i \in 1..Len(outputs) |-> Producer(outputs[i])]

\* A faulty set: scratch state kept from the run before.
StaleNodesDone == nodesDone

\* std::unordered_set<const OperatorBase*> nodesDone; a local, empty at entry.
NewNodesDone == {}

\* A faulty loop: the producers are pushed last input first.
UnfinalizedReversed(node) ==
    LET n == Len(Inputs(node))
        deps == [i \in 1..n |-> Producer(Inputs(node)[n + 1 - i])]
        Open(p) == p \notin nodesDone
    IN SelectSeq(deps, Open)

\* A faulty loop: a node is appended without waiting for its producers.
UnfinalizedNone(node) == <<>>

\* A faulty loop: an operator does not wait for itself.
UnfinalizedOthers(node) ==
    LET deps == [i \in 1..Len(Inputs(node)) |-> Producer(Inputs(node)[i])]
        Open(p) == p \notin nodesDone /\ p # node
    IN SelectSeq(deps, Open)

\* The inner for loop: the producers of node's inputs that are not finalized,
\* one entry per input, in Inputs() order; these are pushed in this order.
Unfinalized(node) ==
    LET deps == [i \in 1..Len(Inputs(node)) |-> Producer(Inputs(node)[i])]
        Open(p) == p \notin nodesDone
    IN SelectSeq(deps, Open)

\* A faulty loop: the node is appended but not marked.
FinalizedForgotten(node) == nodesDone

\* nodesDone.insert(node)
Finalized(node) == nodesDone \cup {node}

Top == nodesToDo[Len(nodesToDo)]
\* A faulty loop: the top is left on the stack.
PopNothing == nodesToDo
Pop == SubSeq(nodesToDo, 1, Len(nodesToDo) - 1)

\* One iteration of while (nodesToDo.size() > 0), the top being an operator.
SortStep ==
    /\ pc = "sort"
    /\ nodesToDo # <<>>
    /\ Top \in nodesDone \/ Top # NullOp
    /\ IF Top \notin nodesDone
       THEN IF Unfinalized(Top) = <<>>
            THEN /\ result' = Append(result, Top)
                 /\ nodesToDo' = Pop
                 /\ nodesDone' = Finalized(Top)
            ELSE /\ nodesToDo' = nodesToDo \o Unfinalized(Top)
                 /\ UNCHANGED <<result, nodesDone>>
       ELSE /\ nodesToDo' = Pop
            /\ UNCHANGED <<result, nodesDone>>
    /\ deferred' = IF Top \notin nodesDone /\ Unfinalized(Top) # <<>>
                   THEN Append(deferred, [node |-> Top, open |-> Range(Unfinalized(Top))])
                   ELSE deferred
    /\ UNCHANGED <<operands, operators, builderError, limit, lastCall, pc, namedOperands,
                   sorted, idx, graphs, calls, sortCalls, buildResult, prev>>

\* The same iteration when the top is the null producer of an error operand:
\* node->Inputs() dereferences a null pointer.  The build either faults there or
\* goes on with whatever it read, here an empty input list.
SortNull(outcome) ==
    /\ pc = "sort"
    /\ nodesToDo # <<>>
    /\ Top = NullOp
    /\ Top \notin nodesDone
    /\ IF outcome = "fault"
       THEN /\ pc' = "crashed"
            /\ UNCHANGED <<result, nodesToDo, nodesDone>>
       ELSE /\ result' = Append(result, Top)
            /\ nodesToDo' = Pop
            /\ nodesDone' = nodesDone \cup {Top}
            /\ pc' = pc
    /\ UNCHANGED <<operands, operators, builderError, limit, lastCall, namedOperands,
                   sorted, idx, graphs, calls, sortCalls, buildResult, deferred, prev>>

(* ----------------------------------------------------------------- Build *)
\* The records a NamedOperands map can hold: one to Len(Names) names, or none,
\* each bound to an operand of the session, listed in GetRecords() order.
NamedRecords ==
    UNION { { [i \in 1..n |-> [name |-> Names[i], operand |-> m[i]]] : m \in [1..n -> OperandIds] } :
            n \in 0..Len(Names) }

Outputs(records) == [i \in 1..Len(records) |-> records[i].operand]

\* A faulty guard: an empty output set is let through.
PreconditionNoEmptyCheck(records) == ~builderError

\* The two early returns of Build.
Precondition(records) == ~builderError /\ records # <<>>

ReturnNull ==
    /\ pc' = "returned"
    /\ buildResult' = "null"

\* Build up to the entry of the while loop of TopologicalSort.
BuildStart(records) ==
    /\ pc \in {"idle", "returned"}
    /\ namedOperands' = records
    /\ lastCall' = [NoCall EXCEPT !.fn = "Build"]
    /\ prev' = IF pc = "returned" /\ sortCalls = 1 /\ namedOperands = records
               THEN [some |-> TRUE, sorted |-> sorted]
               ELSE NoPrev
    /\ result' = <<>>
    /\ sorted' = <<>>
    /\ idx' = 0
    /\ graphs' = 0
    /\ calls' = <<>>
    /\ deferred' = <<>>
    /\ IF Precondition(records)
       THEN /\ nodesToDo' = RootOperators(Outputs(records))
            /\ nodesDone' = NewNodesDone
            /\ sortCalls' = 1
            /\ buildResult' = "none"
            /\ pc' = "sort"
       ELSE /\ nodesToDo' = <<>>
            /\ nodesDone' = {}
            /\ sortCalls' = 0
            /\ ReturnNull
    /\ UNCHANGED <<operands, operators, builderError, limit>>

\* return result; and GetContext()->CreateGraph()
SortReturn ==
    /\ pc = "sort"
    /\ nodesToDo = <<>>
    /\ sorted' = result
    /\ graphs' = graphs + 1
    /\ idx' = 1
    /\ pc' = "add"
    /\ UNCHANGED <<operands, operators, builderError, limit, lastCall, namedOperands,
                   nodesToDo, nodesDone, result, calls, sortCalls, buildResult, deferred, prev>>

\* OperatorBase::IsError() of an operator of the tables: these were built by the
\* non-error constructor.
OperatorIsError(op) == FALSE

\* A faulty loop: the verdict of AddToGraph is dropped.
AddFailedNever(op, ok) == OperatorIsError(op)

\* op->IsError() || ConsumedError(op->AddToGraph(graph))
AddFailed(op, ok) == OperatorIsError(op) \/ ~ok

\* One iteration of the first for loop, or its exit; ok is the backend's verdict.
AddToGraphStep(ok) ==
    /\ pc = "add"
    /\ IF idx > Len(sorted) THEN TRUE ELSE sorted[idx] # NullOp
    /\ IF idx > Len(sorted)
       THEN /\ pc' = "output"
            /\ idx' = 1
            /\ UNCHANGED <<calls, buildResult>>
       ELSE /\ calls' = IF OperatorIsError(sorted[idx])
                        THEN calls
                        ELSE Append(calls, [fn |-> "AddToGraph", arg |-> sorted[idx], ok |-> ok])
            /\ IF AddFailed(sorted[idx], ok)
               THEN ReturnNull /\ idx' = idx
               ELSE idx' = idx + 1 /\ UNCHANGED <<pc, buildResult>>
    /\ UNCHANGED <<operands, operators, builderError, limit, lastCall, namedOperands,
                   nodesToDo, nodesDone, result, sorted, graphs, sortCalls, deferred, prev>>

\* The same iteration for a null entry: op->IsError() dereferences a null
\* pointer; the build faults, or reads a set error flag and Build gives up.
AddNull(outcome) ==
    /\ pc = "add"
    /\ idx <= Len(sorted)
    /\ sorted[idx] = NullOp
    /\ IF outcome = "fault"
       THEN pc' = "crashed" /\ UNCHANGED buildResult
       ELSE ReturnNull
    /\ UNCHANGED <<operands, operators, builderError, limit, lastCall, namedOperands, nodesToDo,
                   nodesDone, result, sorted, idx, graphs, calls, sortCalls, deferred, prev>>

\* One iteration of the second for loop, or its exit.
AddOutputStep(ok) ==
    /\ pc = "output"
    /\ IF idx > Len(namedOperands)
       THEN /\ pc' = "finish"
            /\ UNCHANGED <<idx, calls, buildResult>>
       ELSE /\ calls' = Append(calls, [fn |-> "AddOutput", arg |-> idx, ok |-> ok])
            /\ IF ~ok
               THEN ReturnNull /\ idx' = idx
               ELSE idx' = idx + 1 /\ UNCHANGED <<pc, buildResult>>
    /\ UNCHANGED <<operands, operators, builderError, limit, lastCall, namedOperands,
                   nodesToDo, nodesDone, result, sorted, graphs, sortCalls, deferred, prev>>

\* graph->Finish()
FinishStep(ok) ==
    /\ pc = "finish"
    /\ calls' = Append(calls, [fn |-> "Finish", arg |-> 0, ok |-> ok])
    /\ IF ~ok
       THEN ReturnNull
       ELSE pc' = "compile" /\ UNCHANGED buildResult
    /\ UNCHANGED <<operands, operators, builderError, limit, lastCall, namedOperands, nodesToDo,
                   nodesDone, result, sorted, idx, graphs, sortCalls, deferred, prev>>

\* A faulty return: the graph is returned whatever Compile reports.
CompiledAnyway(ok) == "graph"

\* graph->Compile() and the final return.
Compiled(ok) == IF ok THEN "graph" ELSE "null"

CompileStep(ok) ==
    /\ pc = "compile"
    /\ calls' = Append(calls, [fn |-> "Compile", arg |-> 0, ok |-> ok])
    /\ buildResult' = Compiled(ok)
    /\ pc' = "returned"
    /\ UNCHANGED <<operands, operators, builderError, limit, lastCall, namedOperands, nodesToDo,
                   nodesDone, result, sorted, idx, graphs, sortCalls, deferred, prev>>

(* --------------------------------------------------------- specifications *)
Descriptors == [type : Types, rank : Ranks]
\* The descriptor of an input of rank 2.
ScenarioDescriptor == [type |-> "Float32", rank |-> 2]
\* The records of a NamedOperands map with the one name "result".
ScenarioRecords == { <<[name |-> "result", operand |-> x]>> : x \in OperandIds }
\* The descriptors and kinds of the sessions that go on to Build.
SessionDescriptors == {[type |-> "Float32", rank |-> 2], [type |-> "Int32", rank |-> 3]}
SessionKinds == {"Softmax"}

Init ==
    /\ operands = <<>>
    /\ operators = <<>>
    /\ builderError \in BOOLEAN
    /\ lastCall = NoCall
    /\ pc = "idle"
    /\ namedOperands = <<>>
    /\ nodesToDo = <<>>
    /\ nodesDone = {}
    /\ result = <<>>
    /\ sorted = <<>>
    /\ idx = 0
    /\ graphs = 0
    /\ calls = <<>>
    /\ sortCalls = 0
    /\ buildResult = "none"
    /\ deferred = <<>>
    /\ prev = NoPrev
    /\ limit = MaxOperands

\* The client thread is between two calls, and the session may still allocate.
BetweenCalls == pc \in {"idle", "returned"}
MayConstruct == BetweenCalls /\ Len(operands) < limit

\* A session: operands are built, and Build is called on some of them.
Next ==
    \/ MayConstruct /\ \E d \in SessionDescriptors, ok \in BOOLEAN : Input(d, ok)
    \/ MayConstruct /\ \E k \in SessionKinds, x \in OperandIds : Unary(k, x)
    \/ MayConstruct /\ \E a, b \in OperandIds, ok \in BOOLEAN : Binary("Add", a, b, ok)
    \/ BetweenCalls /\ \E r \in NamedRecords : BuildStart(r)
    \/ SortStep
    \/ pc = "sort" /\ \E o \in {"fault", "empty"} : SortNull(o)
    \/ SortReturn
    \/ pc = "add" /\ \E ok \in BOOLEAN : AddToGraphStep(ok)
    \/ pc = "add" /\ \E o \in {"fault", "error"} : AddNull(o)
    \/ pc = "output" /\ \E ok \in BOOLEAN : AddOutputStep(ok)
    \/ pc = "finish" /\ \E ok \in BOOLEAN : FinishStep(ok)
    \/ pc = "compile" /\ \E ok \in BOOLEAN : CompileStep(ok)

Spec == Init /\ [][Next]_vars

\* The construction entry points alone, with every operator kind of the model.
NextKinds ==
    \/ MayConstruct /\ \E d \in Descriptors, ok \in BOOLEAN : Input(d, ok)
    \/ MayConstruct /\ \E k \in UnaryKinds, x \in OperandIds : Unary(k, x)
    \/ MayConstruct /\ \E a, b \in OperandIds, ok \in BOOLEAN : Binary("MatMul", a, b, ok)
    \/ MayConstruct /\ \E x \in OperandIds, c \in Activations, ok \in BOOLEAN :
          c.fused = "Clamp" /\ Clamp(x, c.minValue, c.maxValue, ok)
    \/ MayConstruct /\ \E x, f \in OperandIds, o \in Conv2dOptions, ok1, ok2 \in BOOLEAN :
          Conv2d(x, f, o, ok1, ok2)

SpecKinds == Init /\ [][NextKinds]_vars

\* The construction entry points of every result kind: operand, fused-operator
\* handle and operand collection.
SplitCounts == {2}

ProtocolClamp == [fused |-> "Clamp", minValue |-> 0, maxValue |-> 6]
ProtocolOptions == {NullOptions, [null |-> FALSE, activation |-> ProtocolClamp]}

\* The session may still allocate an operator as well as an operand.
MayAllocate == MayConstruct /\ Len(operators) < limit

NextProtocol ==
    \/ MayAllocate /\ \E d \in SessionDescriptors, ok \in BOOLEAN : Input(d, ok)
    \/ MayAllocate /\ \E k \in SessionKinds, x \in OperandIds : Unary(k, x)
    \/ MayAllocate /\ \E x, f \in OperandIds, o \in ProtocolOptions, ok1, ok2 \in BOOLEAN :
          Conv2d(x, f, o, ok1, ok2)
    \/ MayAllocate /\ \E ok \in BOOLEAN :
          ClampOperator(ProtocolClamp.minValue, ProtocolClamp.maxValue, ok)
    \/ MayAllocate /\ \E x \in OperandIds, n \in SplitCounts, ok \in BOOLEAN : Split(x, n, ok)

SpecProtocol == Init /\ [][NextProtocol]_vars

\* TopologicalSort on any operator graph, cyclic ones included: the state at
\* the entry of the while loop, for every graph of MaxSortOperators operators
\* with one output each and every list of roots.
SeqsUpTo(S, n) == UNION { [1..k -> S] : k \in 0..n }
SortGraphs ==
    [1..MaxSortOperators -> { [kind |-> "Node", inputs |-> ins, out |-> 0, n |-> 1,
                               activation |-> NoActivation, minValue |-> 0, maxValue |-> 0] :
                              ins \in SeqsUpTo(1..MaxSortOperators, BinaryInputs) }]
SortRoots == SeqsUpTo(1..MaxSortOperators, Len(Names)) \ {<<>>}

InitSort ==
    /\ \E g \in SortGraphs : operators = [o \in 1..MaxSortOperators |-> [g[o] EXCEPT !.out = o]]
    /\ operands = [x \in 1..MaxSortOperators |->
                      [err |-> FALSE, op |-> x, type |-> DefaultType, rank |-> DefaultRank]]
    /\ builderError = FALSE
    /\ lastCall = [NoCall EXCEPT !.fn = "Build"]
    /\ pc = "sort"
    /\ \E r \in SortRoots :
          /\ namedOperands = [i \in 1..Len(r) |-> [name |-> Names[i], operand |-> r[i]]]
          /\ nodesToDo = RootOperators(r)
    /\ nodesDone = NewNodesDone
    /\ result = <<>>
    /\ sorted = <<>>
    /\ idx = 0
    /\ graphs = 0
    /\ calls = <<>>
    /\ sortCalls = 1
    /\ buildResult = "none"
    /\ deferred = <<>>
    /\ prev = NoPrev
    /\ limit = MaxSortOperators

NextSort ==
    \/ Len(nodesToDo) <= MaxStack /\ SortStep
    \/ SortReturn

SpecSort == InitSort /\ [][NextSort]_vars

\* The loop runs on: the thread that called Build is not stopped.
SpecSortFair == SpecSort /\ WF_vars(NextSort)

\* The two entry points that take an activation: without options, with a relu
\* activation and with a clamp activation, on inputs of one descriptor.
RewriteOptions ==
    { NullOptions,
      [null |-> FALSE, activation |-> [fused |-> "Relu", minValue |-> 0, maxValue |-> 0]],
      [null |-> FALSE, activation |-> [fused |-> "Clamp", minValue |-> 1, maxValue |-> 3]] }

NextRewrite ==
    \/ MayConstruct /\ \E ok \in BOOLEAN : Input(ScenarioDescriptor, ok)
    \/ MayConstruct /\ \E x, f \in OperandIds, o \in RewriteOptions, ok1, ok2 \in BOOLEAN :
          Conv2d(x, f, o, ok1, ok2)
    \/ MayConstruct /\ \E x, m, v \in OperandIds, o \in RewriteOptions, ok1, ok2 \in BOOLEAN :
          BatchNorm(x, m, v, o, ok1, ok2)

SpecRewrite == Init /\ [][NextRewrite]_vars

\* Sessions that build convolutions, with and without the clamp rewrite, and
\* call Build on them.
NextValidate ==
    \/ MayConstruct /\ \E ok \in BOOLEAN : Input(ScenarioDescriptor, ok)
    \/ MayConstruct /\ \E x, f \in OperandIds, o \in RewriteOptions, ok1, ok2 \in BOOLEAN :
          Conv2d(x, f, o, ok1, ok2)
    \/ BetweenCalls /\ \E r \in ScenarioRecords : BuildStart(r)
    \/ SortStep
    \/ pc = "sort" /\ \E o \in {"fault", "empty"} : SortNull(o)
    \/ SortReturn
    \/ pc = "add" /\ \E ok \in BOOLEAN : AddToGraphStep(ok)
    \/ pc = "add" /\ \E o \in {"fault", "error"} : AddNull(o)
    \/ pc = "output" /\ \E ok \in BOOLEAN : AddOutputStep(ok)
    \/ pc = "finish" /\ \E ok \in BOOLEAN : FinishStep(ok)
    \/ pc = "compile" /\ \E ok \in BOOLEAN : CompileStep(ok)

SpecValidate == Init /\ [][NextValidate]_vars

\* The end-to-end scenario: rank-2 inputs, MatMul and Relu, all of them valid,
\* and Build with the one output name "result" against any backend.
InitScenario ==
    /\ operands = <<>>
    /\ operators = <<>>
    /\ builderError = FALSE
    /\ lastCall = NoCall
    /\ pc = "idle"
    /\ namedOperands = <<>>
    /\ nodesToDo = <<>>
    /\ nodesDone = {}
    /\ result = <<>>
    /\ sorted = <<>>
    /\ idx = 0
    /\ graphs = 0
    /\ calls = <<>>
    /\ sortCalls = 0
    /\ buildResult = "none"
    /\ deferred = <<>>
    /\ prev = NoPrev
    /\ limit = MaxScenarioOperands

NextScenario ==
    \/ MayConstruct /\ Input(ScenarioDescriptor, TRUE)
    \/ MayConstruct /\ \E a, b \in OperandIds : Binary("MatMul", a, b, TRUE)
    \/ MayConstruct /\ \E x \in OperandIds : Unary("Relu", x)
    \/ BetweenCalls /\ \E r \in ScenarioRecords : BuildStart(r)
    \/ SortStep
    \/ SortReturn
    \/ pc = "add" /\ \E ok \in BOOLEAN : AddToGraphStep(ok)
    \/ pc = "output" /\ \E ok \in BOOLEAN : AddOutputStep(ok)
    \/ pc = "finish" /\ \E ok \in BOOLEAN : FinishStep(ok)
    \/ pc = "compile" /\ \E ok \in BOOLEAN : CompileStep(ok)

SpecScenario == InitScenario /\ [][NextScenario]_vars

(* ------------------------------------------------------------ properties *)
OperatorIds == 1..Len(operators)

\* The operators producing the inputs of an operator.
ProducersOf(node) == { Producer(Inputs(node)[i]) : i \in 1..Len(Inputs(node)) }

\* The operators reachable from a set of operators through input-producer edges.
RECURSIVE ReachableFrom(_)
ReachableFrom(S) ==
    LET T == S \cup UNION { ProducersOf(n) : n \in S }
    IN IF T = S THEN S ELSE ReachableFrom(T)

\* The producing operators of the named outputs (an error operand has none).
RootSet == { Producer(namedOperands[i].operand) : i \in 1..Len(namedOperands) } \ {NullOp}

PositionIn(seq, x) == CHOOSE i \in 1..Len(seq) : seq[i] = x
NoDuplicates(seq) == \A i, j \in 1..Len(seq) : seq[i] = seq[j] => i = j

\* TopologicalSort has returned to the running (or finished) Build.
SortReturned == sortCalls = 1 /\ pc \in {"add", "output", "finish", "compile", "returned"}

\* The operators Build has handed to the backend graph so far.
AddedToGraph == SelectSeq(calls, LAMBDA c : c.fn = "AddToGraph")

\* C1: in the sequence TopologicalSort returns, every operator stands strictly
\* after the operators producing its inputs.
C1_ProducersFirst ==
    SortReturned =>
        \A i \in 1..Len(sorted) :
            sorted[i] # NullOp =>
                \A p \in ProducersOf(sorted[i]) :
                    \E j \in 1..(i - 1) : sorted[j] = p

\* A sort has returned at least three operators, one of them with two
\* different producers.
C1_Witness ==
    /\ SortReturned
    /\ Len(sorted) >= 3
    /\ \E i \in 1..Len(sorted) :
          sorted[i] # NullOp /\ Cardinality(ProducersOf(sorted[i])) = 2

\* C2: the sequence TopologicalSort returns holds exactly the operators
\* reachable from the roots, each once, and Build hands no other operator to the
\* backend graph.
C2_ExactlyReachable ==
    /\ SortReturned =>
          /\ NoDuplicates(sorted)
          /\ Range(sorted) \ {NullOp} = ReachableFrom(RootSet)
    /\ \A i \in 1..Len(AddedToGraph) : AddedToGraph[i].arg \in ReachableFrom(RootSet)

\* A sort over two named outputs has returned a shared producer and left an
\* operator of the session out, and the backend has been handed operators.
C2_Witness ==
    /\ SortReturned
    /\ Len(namedOperands) = 2
    /\ Len(sorted) >= 2
    /\ NullOp \notin Range(sorted)
    /\ OperatorIds \ Range(sorted) # {}
    /\ Len(AddedToGraph) >= 2

Succeeded(fn, arg) == \E i \in 1..Len(calls) : calls[i] = [fn |-> fn, arg |-> arg, ok |-> TRUE]

\* C3: Build returns a graph exactly when the builder is not in error, there is
\* a named output, every sorted operator is a non-error operator whose
\* AddToGraph succeeded, every AddOutput, Finish and Compile succeeded; it
\* returns null otherwise, and no backend call of a returned graph has failed.
C3_GraphIffAllStagesSucceed ==
    /\ pc = "returned" =>
          /\ buildResult \in {"graph", "null"}
          /\ buildResult = "graph" <=>
                /\ ~builderError
                /\ namedOperands # <<>>
                /\ SortReturned
                /\ \A i \in 1..Len(sorted) :
                      /\ sorted[i] # NullOp
                      /\ ~OperatorIsError(sorted[i])
                      /\ Succeeded("AddToGraph", sorted[i])
                /\ \A i \in 1..Len(namedOperands) : Succeeded("AddOutput", i)
                /\ Succeeded("Finish", 0)
                /\ Succeeded("Compile", 0)
          /\ buildResult = "graph" => \A i \in 1..Len(calls) : calls[i].ok
    /\ pc \in {"sort", "add", "output", "finish", "compile"} => buildResult = "none"

\* Build has returned a graph of at least two operators and two outputs.
C3_Witness ==
    /\ pc = "returned"
    /\ buildResult = "graph"
    /\ Len(sorted) >= 2
    /\ Len(namedOperands) = 2

\* C4: Build on a builder in error, or with no named output, returns null and
\* has created no backend graph, run no sort and made no backend call.
C4_PreconditionAbort ==
    (lastCall.fn = "Build" /\ (builderError \/ namedOperands = <<>>)) =>
        /\ pc = "returned"
        /\ buildResult = "null"
        /\ graphs = 0
        /\ sortCalls = 0
        /\ nodesToDo = <<>>
        /\ result = <<>>
        /\ calls = <<>>

\* Build was called with no named output on a healthy builder holding operators.
C4_Witness ==
    /\ lastCall.fn = "Build"
    /\ ~builderError
    /\ namedOperands = <<>>
    /\ Len(operators) >= 2
    /\ pc = "returned"

\* Build was called on a builder in error with a named output.
C4_WitnessErrorBuilder ==
    /\ lastCall.fn = "Build"
    /\ builderError
    /\ namedOperands # <<>>
    /\ pc = "returned"

\* The last call was a construction entry point.
Constructed == lastCall.fn \notin {"none", "Build"}
AllTrue(flags) == \A i \in 1..Len(flags) : flags[i]
NoErrorIn(args) == \A i \in 1..Len(args) : ~operands[args[i]].err

\* C5: a construction call given an error operand returns an error operand,
\* whatever its other arguments; so no operator is ever built on an error
\* operand and the poison passes down every chain of calls.
C5_PoisoningIsTransitive ==
    /\ (Constructed /\ ~NoErrorIn(lastCall.args)) => operands[lastCall.ret].err
    /\ \A o \in OperatorIds : NoErrorIn(Inputs(o))

\* A two-input call whose first argument and own checks were fine was given an
\* error operand second and has returned an error operand.
C5_Witness ==
    /\ Constructed
    /\ Len(lastCall.args) = 2
    /\ ~operands[lastCall.args[1]].err
    /\ operands[lastCall.args[2]].err
    /\ AllTrue(lastCall.given)
    /\ operands[lastCall.ret].err

\* A call given an error operand that a poisoned call had returned.
C5_WitnessChain ==
    /\ Constructed
    /\ Len(lastCall.args) >= 1
    /\ lastCall.args[1] >= 2
    /\ operands[lastCall.args[1]].err
    /\ operands[lastCall.args[1] - 1].err
    /\ operands[lastCall.ret].err

\* C6: Build given an error operand as a named output returns null and has
\* created no backend graph and made no backend call.
C6_ErrorOutputFailsCleanly ==
    (/\ lastCall.fn = "Build"
     /\ ~builderError
     /\ \E i \in 1..Len(namedOperands) : operands[namedOperands[i].operand].err) =>
        /\ pc # "crashed"
        /\ graphs = 0
        /\ calls = <<>>
        /\ pc = "returned" => buildResult = "null"

\* The operators the last construction call left in the tables.
CreatedByLastCall == (lastCall.ops0 + 1)..Len(operators)

\* C7: Conv2d with a clamp activation and valid arguments returns the output of
\* a clamp operator, other than the convolution, whose one input is the primary
\* output of the convolution of the two arguments and whose bounds are those of
\* the activation; with any other activation or none it creates no clamp and
\* returns the primary output of the convolution.
C7_ClampRewrite ==
    lastCall.fn = "Conv2d" =>
        LET act == lastCall.activation
            ret == lastCall.ret
            valid == NoErrorIn(lastCall.args) /\ AllTrue(lastCall.given)
        IN IF act.fused = "Clamp"
           THEN /\ valid => (Len(lastCall.given) = 2 /\ ~operands[ret].err)
                /\ ~operands[ret].err =>
                      LET c == Producer(ret)
                          clamp == operators[c]
                          v == Producer(clamp.inputs[1])
                          conv == operators[v]
                      IN /\ clamp.kind = "Clamp"
                         /\ clamp.out = ret
                         /\ Len(clamp.inputs) = 1
                         /\ clamp.inputs[1] = conv.out
                         /\ clamp.minValue = act.minValue
                         /\ clamp.maxValue = act.maxValue
                         /\ conv.kind = "Conv2d"
                         /\ conv.inputs = lastCall.args
                         /\ v # c
                         /\ CreatedByLastCall = {v, c}
           ELSE /\ valid => ~operands[ret].err
                /\ \A o \in CreatedByLastCall : operators[o].kind # "Clamp"
                /\ ~operands[ret].err =>
                      /\ CreatedByLastCall = {Producer(ret)}
                      /\ operators[Producer(ret)].kind = "Conv2d"
                      /\ operators[Producer(ret)].inputs = lastCall.args
                      /\ operators[Producer(ret)].out = ret

\* Conv2d with the clamp activation (1, 3) has returned a non-error operand.
C7_Witness ==
    /\ lastCall.fn = "Conv2d"
    /\ lastCall.activation = [fused |-> "Clamp", minValue |-> 1, maxValue |-> 3]
    /\ ~operands[lastCall.ret].err

\* Conv2d with a relu activation has returned a non-error operand.
C7_WitnessOther ==
    /\ lastCall.fn = "Conv2d"
    /\ lastCall.activation.fused = "Relu"
    /\ ~operands[lastCall.ret].err

\* C8: a Build that repeats the Build before it, with the same named outputs
\* and no call between, gets the same sequence from TopologicalSort and issues
\* its AddToGraph calls in that order.
C8_SameOrderAgain ==
    prev.some =>
        /\ SortReturned => sorted = prev.sorted
        /\ Len(AddedToGraph) <= Len(prev.sorted)
        /\ \A i \in 1..Len(AddedToGraph) : AddedToGraph[i].arg = prev.sorted[i]

\* A repeated Build has sorted at least three operators again and handed two
\* to the backend.
C8_Witness ==
    /\ prev.some
    /\ SortReturned
    /\ Len(prev.sorted) >= 3
    /\ Len(AddedToGraph) >= 2

Independent(p, q) == p \notin ReachableFrom({q}) /\ q \notin ReachableFrom({p})
Listings(node, p) == { i \in 1..Len(Inputs(node)) : Producer(Inputs(node)[i]) = p }
LastListing(node, p) == CHOOSE i \in Listings(node, p) : \A j \in Listings(node, p) : j <= i

C10_TypeRankFromInput0 ==
    /\ Constructed =>
          LET c == lastCall.ctor
          IN /\ c.n = Len(lastCall.args)
             /\ c.n = 0 => (c.type = "Float32" /\ c.rank = 0)
             /\ (c.n >= 1 /\ ~operands[lastCall.args[1]].err) =>
                    /\ c.type = operands[lastCall.args[1]].type
                    /\ c.rank = operands[lastCall.args[1]].rank
    /\ \A o \in OperatorIds :
          operators[o].kind \in UnaryKinds =>
              /\ operands[operators[o].out].type = operands[Inputs(o)[1]].type
              /\ operands[operators[o].out].rank = operands[Inputs(o)[1]].rank

\* A unary call on an Int32 operand of rank 3 has returned a non-error operand.
C10_Witness ==
    /\ lastCall.fn \in UnaryKinds
    /\ ~operands[lastCall.ret].err
    /\ operands[lastCall.ret].type = "Int32"
    /\ operands[lastCall.ret].rank = 3
    /\ lastCall.ctor.type = "Int32"

\* A call that builds an operator without inputs has returned.
C10_WitnessNoInput ==
    /\ Constructed
    /\ lastCall.ctor.n = 0
    /\ ~operands[lastCall.ret].err
    /\ operands[lastCall.ret].type = "Int32"

\* C11: a unary call on a non-error operand returns an error operand exactly
\* when it is Softmax and the rank of the operand is not 2; a unary call on an
\* error operand returns an error operand whatever the kind (the base
\* validation decides first); the other unary kinds accept every rank.
C11_SoftmaxRankGate ==
    lastCall.fn \in UnaryKinds =>
        LET x == lastCall.args[1]
        IN /\ Len(lastCall.checks) = 1
           /\ operands[lastCall.ret].err <=> ~lastCall.checks[1]
           /\ operands[x].err => ~lastCall.checks[1]
           /\ ~operands[x].err =>
                 (lastCall.checks[1] <=> (lastCall.fn = "Softmax" => operands[x].rank = 2))

\* Softmax on a non-error operand of rank 3 has returned an error operand.
C11_Witness ==
    /\ lastCall.fn = "Softmax"
    /\ ~operands[lastCall.args[1]].err
    /\ operands[lastCall.args[1]].rank = 3
    /\ operands[lastCall.ret].err

\* Softmax on an operand of rank 2 has returned a non-error operand.
C11_WitnessRank2 ==
    /\ lastCall.fn = "Softmax"
    /\ operands[lastCall.args[1]].rank = 2
    /\ ~operands[lastCall.ret].err

\* Relu on an operand of rank 3 has returned a non-error operand.
C11_WitnessRelu ==
    /\ lastCall.fn = "Relu"
    /\ operands[lastCall.args[1]].rank = 3
    /\ ~operands[lastCall.ret].err

\* The session of the scenario: operands 1 and 2 are the inputs A and B (in
\* either order), operand 3 is C = MatMul(A, B), operand 4 is D = Relu(C), and
\* the running or finished Build was given {"result": D}.
ScenarioBuilt ==
    /\ Len(operators) = 4
    /\ Len(operands) = 4
    /\ operators[1].kind = "Input" /\ operators[2].kind = "Input"
    /\ operators[3].kind = "MatMul" /\ operators[3].inputs \in {<<1, 2>>, <<2, 1>>}
    /\ operators[4].kind = "Relu" /\ operators[4].inputs = <<3>>
    /\ \A x \in 1..2 : operands[x].rank = 2
    /\ lastCall.fn = "Build"
    /\ namedOperands = <<[name |-> "result", operand |-> 4]>>

\* The scenario's Build has returned and no backend call has failed.
ScenarioDone == ScenarioBuilt /\ pc = "returned" /\ \A i \in 1..Len(calls) : calls[i].ok

SortedKinds == [i \in 1..Len(sorted) |-> operators[sorted[i]].kind]
CallsTo(fn) == SelectSeq(calls, LAMBDA c : c.fn = fn)

\* C12: in the scenario the sorted operator order is [MatMul, Relu], one output
\* named "result" and bound to D is registered, Compile is invoked once and
\* succeeds, and the graph is returned.
C12_Scenario ==
    ScenarioDone =>
        /\ SortedKinds = <<"MatMul", "Relu">>
        /\ CallsTo("AddOutput") = <<[fn |-> "AddOutput", arg |-> 1, ok |-> TRUE]>>
        /\ CallsTo("Compile") = <<[fn |-> "Compile", arg |-> 0, ok |-> TRUE]>>
        /\ buildResult = "graph"

\* C12 as amended: the sorted operator order is [Input B, Input A, MatMul,
\* Relu], the operators of the two inputs first and the one MatMul lists last
\* before the other; AddToGraph is invoked on these four in this order; one
\* output named "result" and bound to D is registered, Finish and Compile are
\* invoked once and succeed, and the graph is returned.
C12_ScenarioWithInputs ==
    ScenarioDone =>
        LET a == operators[3].inputs[1]
            b == operators[3].inputs[2]
        IN /\ sorted = <<Producer(b), Producer(a), 3, 4>>
           /\ SortedKinds = <<"Input", "Input", "MatMul", "Relu">>
           /\ [i \in 1..Len(AddedToGraph) |-> AddedToGraph[i].arg] = sorted
           /\ CallsTo("AddOutput") = <<[fn |-> "AddOutput", arg |-> 1, ok |-> TRUE]>>
           /\ namedOperands[1].name = "result" /\ namedOperands[1].operand = operators[4].out
           /\ CallsTo("Finish") = <<[fn |-> "Finish", arg |-> 0, ok |-> TRUE]>>
           /\ CallsTo("Compile") = <<[fn |-> "Compile", arg |-> 0, ok |-> TRUE]>>
           /\ buildResult = "graph"

\* The scenario's Build has returned the graph, with C = MatMul(A, B) built
\* on the inputs in the order they were created.
C12_Witness ==
    /\ ScenarioDone
    /\ operators[3].inputs = <<1, 2>>
    /\ buildResult = "graph"

\* The outputs of an operator, op->Outputs(); the first is op->PrimaryOutput().
Outs(o) == [i \in 1..operators[o].n |-> operators[o].out + i - 1]
\* The operators that hold operand x as an output.
ProducersOfOperand(x) == { o \in OperatorIds : x \in Range(Outs(o)) }

\* C13: a construction call returns the error sentinel of its result kind
\* exactly when a Validate() it ran failed, and then leaves no operator behind;
\* otherwise an operand-valued call returns the primary output of the operator
\* it built last, an operator-valued call that operator, a collection-valued
\* call all outputs of that operator.  Always, a non-error operand is an output
\* of exactly one operator, the one it names, and an error operand of none.
C13_ValidateOrPoison ==
    /\ Constructed =>
          LET last == Len(operators)
          IN /\ lastCall.checks # <<>>
             /\ lastCall.retErr <=> ~AllTrue(lastCall.checks)
             /\ lastCall.retErr => Len(operators) = lastCall.ops0
             /\ ~lastCall.retErr => last > lastCall.ops0
             /\ lastCall.kind = "operand" =>
                   /\ lastCall.ret \in OperandIds
                   /\ operands[lastCall.ret].err = lastCall.retErr
                   /\ ~lastCall.retErr =>
                         (operators[last].n >= 1 /\ lastCall.ret = Outs(last)[1])
             /\ lastCall.kind = "operator" =>
                   lastCall.ret = (IF lastCall.retErr THEN NullOp ELSE last)
             /\ lastCall.kind = "array" =>
                   lastCall.rets = (IF lastCall.retErr THEN <<>> ELSE Outs(last))
    /\ \A x \in OperandIds :
          IF operands[x].err
          THEN Producer(x) = NullOp /\ ProducersOfOperand(x) = {}
          ELSE ProducersOfOperand(x) = {Producer(x)}

\* Split has returned a collection of two operands.
C13_Witness ==
    /\ lastCall.fn = "Split"
    /\ ~lastCall.retErr
    /\ Len(lastCall.rets) = 2

\* ClampOperator has returned the error sentinel of an operator.
C13_WitnessFusedError ==
    /\ lastCall.fn = "ClampOperator"
    /\ lastCall.retErr

\* ClampOperator has returned an operator, and Split the error collection.
C13_WitnessFused == lastCall.fn = "ClampOperator" /\ ~lastCall.retErr
C13_WitnessArrayError == lastCall.fn = "Split" /\ lastCall.retErr

\* Conv2d with a clamp activation has returned an error operand because the
\* clamp it built on a valid convolution failed its validation.
C13_WitnessSecondValidation ==
    /\ lastCall.fn = "Conv2d"
    /\ lastCall.checks = <<TRUE, FALSE>>
    /\ operands[lastCall.ret].err

\* The stage of Build a backend call belongs to.
Stage(fn) ==
    CASE fn = "AddToGraph" -> 1
      [] fn = "AddOutput" -> 2
      [] fn = "Finish" -> 3
      [] fn = "Compile" -> 4

\* C14: within one Build the backend graph is created at most once and before
\* any other backend call; the calls made so far are AddToGraph on the sorted
\* operators in sorted order, then AddOutput on the named outputs in order, then
\* one Finish, then one Compile, a stage starting only when the stage before is
\* complete; only the last call made can have failed, so nothing follows a
\* failure and nothing is retried.
C14_LinearStages ==
    /\ graphs <= 1
    /\ calls # <<>> =>
          LET added   == AddedToGraph
              outputs == CallsTo("AddOutput")
              finish  == CallsTo("Finish")
              compile == CallsTo("Compile")
          IN /\ graphs = 1 /\ sortCalls = 1 /\ pc # "sort"
             /\ \A i \in 1..(Len(calls) - 1) :
                   /\ calls[i].ok
                   /\ Stage(calls[i].fn) <= Stage(calls[i + 1].fn)
             /\ Len(added) <= Len(sorted)
             /\ \A i \in 1..Len(added) : added[i].arg = sorted[i]
             /\ Len(outputs) <= Len(namedOperands)
             /\ \A i \in 1..Len(outputs) : outputs[i].arg = i
             /\ Len(finish) <= 1
             /\ Len(compile) <= 1
             /\ outputs # <<>> => Len(added) = Len(sorted)
             /\ finish # <<>> =>
                   (Len(added) = Len(sorted) /\ Len(outputs) = Len(namedOperands))
             /\ compile # <<>> => finish # <<>>
             /\ (pc = "returned" /\ ~calls[Len(calls)].ok) => buildResult = "null"
    /\ (pc = "returned" /\ buildResult = "graph") => CallsTo("Compile") # <<>>

\* Build has returned after AddOutput failed on the second name, two operators
\* having been added.
C14_Witness ==
    /\ pc = "returned"
    /\ Len(AddedToGraph) >= 2
    /\ Len(calls) = Len(AddedToGraph) + 2
    /\ calls[Len(calls)] = [fn |-> "AddOutput", arg |-> 2, ok |-> FALSE]

\* Build has returned after Finish failed, and after AddToGraph failed on the
\* second sorted operator of three.
C14_WitnessFinish ==
    /\ pc = "returned"
    /\ calls # <<>>
    /\ calls[Len(calls)] = [fn |-> "Finish", arg |-> 0, ok |-> FALSE]
C14_WitnessAdd ==
    /\ pc = "returned"
    /\ Len(sorted) = 3
    /\ Len(calls) = 2
    /\ ~calls[2].ok

\* An operator lies on a cycle of input-producer edges.
OnCycle(o) == o \in ReachableFrom(ProducersOf(o))
\* A cycle can be reached from the roots.
CycleReachable == \E o \in ReachableFrom(RootSet) : OnCycle(o)

\* C15: on an operator graph with no cycle reachable from the roots, whatever
\* the root list, TopologicalSort comes to an empty stack and returns.
C15_SortTerminates == (~CycleReachable) => <>(pc = "add" /\ nodesToDo = <<>>)

\* A sort has returned whose roots repeat an operand and one of whose
\* operators consumes one operand twice.
C15_Witness ==
    /\ pc = "add"
    /\ ~CycleReachable
    /\ Len(namedOperands) = 2
    /\ namedOperands[1].operand = namedOperands[2].operand
    /\ \E o \in Range(sorted) : Len(Inputs(o)) = 2 /\ Inputs(o)[1] = Inputs(o)[2]

\* On such graphs the stack stays within the depth the traversal is followed to.
SortWithinStack == (~CycleReachable) => Len(nodesToDo) <= MaxStack

\* C16: when a cycle can be reached from the roots, TopologicalSort never
\* returns: the stack is never empty and no operator on a cycle is ever
\* finalized or appended to the result.
C16_CycleNeverReturns ==
    CycleReachable =>
        /\ pc = "sort"
        /\ nodesToDo # <<>>
        /\ \A o \in OperatorIds : OnCycle(o) => (o \notin nodesDone /\ o \notin Range(result))

\* A traversal has put an operator that consumes its own output on the stack
\* again, above itself.
C16_Witness ==
    /\ CycleReachable
    /\ Len(nodesToDo) >= 3
    /\ \E o \in OperatorIds :
          /\ o \in ProducersOf(o)
          /\ nodesToDo[Len(nodesToDo)] = o
          /\ nodesToDo[Len(nodesToDo) - 1] = o

\* A traversal is in a cycle of two operators.
C16_WitnessTwoCycle ==
    /\ CycleReachable
    /\ Len(nodesToDo) >= 3
    /\ \E o, q \in OperatorIds :
          o # q /\ o \in ProducersOf(q) /\ q \in ProducersOf(o) /\ Top = o

\* The last call was Conv2d or BatchNorm; the kind of its base operator.
TakesActivation == lastCall.fn \in {"Conv2d", "BatchNorm"}
BaseKind == lastCall.fn

\* C17: after Conv2d or BatchNorm with a clamp activation has returned a
\* non-error operand, the base operator under the clamp node was built without
\* the activation: its options name no clamp activation.
C17_BaseWithoutActivation ==
    (TakesActivation /\ lastCall.activation.fused = "Clamp" /\ ~lastCall.retErr) =>
        LET clamp == operators[Producer(lastCall.ret)]
            base  == operators[Producer(clamp.inputs[1])]
        IN /\ base.kind = BaseKind
           /\ base.activation = NoActivation

\* C18: Conv2d and BatchNorm alike, given a clamp activation, run one
\* validation and build nothing when the base operator is invalid, run two and
\* build nothing when only the clamp is invalid, and otherwise return the
\* primary output of a clamp built on the primary output of the base; given any
\* other activation or none they allocate and validate the base alone.
C18_RewriteAlike ==
    TakesActivation =>
        LET created == CreatedByLastCall
            last    == Len(operators)
            baseOk  == NoErrorIn(lastCall.args) /\ lastCall.given[1]
            WithClamp ==
                /\ ~baseOk =>
                      /\ lastCall.retErr
                      /\ lastCall.checks = <<FALSE>>
                      /\ lastCall.validated = <<1>>
                      /\ created = {}
                /\ baseOk =>
                      /\ Len(lastCall.checks) = 2
                      /\ lastCall.checks[2] = lastCall.given[2]
                      /\ lastCall.validated = <<1, 2>>
                      /\ lastCall.retErr <=> ~lastCall.checks[2]
                      /\ lastCall.retErr => created = {}
                      /\ ~lastCall.retErr =>
                            /\ created = {last - 1, last}
                            /\ operators[last].kind = "Clamp"
                            /\ operators[last].out = lastCall.ret
                            /\ operators[last].inputs = <<operators[last - 1].out>>
                            /\ operators[last - 1].kind = BaseKind
                            /\ operators[last - 1].inputs = lastCall.args
            WithoutClamp ==
                /\ Len(lastCall.checks) = 1
                /\ lastCall.validated = <<1>>
                /\ lastCall.retErr <=> ~baseOk
                /\ lastCall.retErr => created = {}
                /\ ~lastCall.retErr =>
                      /\ created = {last}
                      /\ operators[last].kind = BaseKind
                      /\ operators[last].inputs = lastCall.args
                      /\ operators[last].out = lastCall.ret
        IN /\ lastCall.checks[1] = baseOk
           /\ IF lastCall.activation.fused = "Clamp" THEN WithClamp ELSE WithoutClamp

\* BatchNorm with a clamp activation has returned an error operand because the
\* clamp failed its validation after the batch normalization passed.
C18_Witness ==
    /\ lastCall.fn = "BatchNorm"
    /\ lastCall.activation.fused = "Clamp"
    /\ lastCall.checks = <<TRUE, FALSE>>
    /\ lastCall.retErr

\* BatchNorm and Conv2d with a clamp activation have returned a clamp's
\* output; BatchNorm with an invalid base has returned an error operand;
\* BatchNorm with a relu activation has returned its own output.
C18_WitnessBatchNorm ==
    lastCall.fn = "BatchNorm" /\ lastCall.activation.fused = "Clamp" /\ ~lastCall.retErr
C18_WitnessConv2d ==
    lastCall.fn = "Conv2d" /\ lastCall.activation.fused = "Clamp" /\ ~lastCall.retErr
C18_WitnessBaseInvalid ==
    /\ lastCall.fn = "BatchNorm"
    /\ lastCall.activation.fused = "Clamp"
    /\ lastCall.checks = <<FALSE>>
C18_WitnessRelu ==
    lastCall.fn = "BatchNorm" /\ lastCall.activation.fused = "Relu" /\ ~lastCall.retErr

\* How often an operator occurs in a sequence of operators, and how often
\* AddToGraph was invoked on it.
Occurrences(seq, o) == Cardinality({ i \in 1..Len(seq) : seq[i] = o })
TimesAdded(o) == Cardinality({ i \in 1..Len(AddedToGraph) : AddedToGraph[i].arg = o })

\* C19: however often its outputs are consumed or named, an operator reachable
\* from the named outputs occurs once in the sorted sequence, AddToGraph is
\* invoked on it at most once in a Build and exactly once in a Build that gets
\* past the first loop, and such a Build invokes AddOutput once for each name.
C19_SharedOnce ==
    /\ NoDuplicates(result)
    /\ calls # <<>> => \A o \in OperatorIds : TimesAdded(o) <= 1
    /\ SortReturned =>
          \A o \in ReachableFrom(RootSet) :
              /\ Occurrences(sorted, o) = 1
              /\ (pc \in {"output", "finish", "compile"} \/ buildResult = "graph") =>
                    TimesAdded(o) = 1
    /\ (pc \in {"finish", "compile"} \/ buildResult = "graph") =>
          /\ Len(CallsTo("AddOutput")) = Len(namedOperands)
          /\ \A i \in 1..Len(namedOperands) : CallsTo("AddOutput")[i].arg = i

\* Build has returned a graph for two names bound to one operand, whose
\* producer consumes one operand twice.
C19_Witness ==
    /\ pc = "returned"
    /\ buildResult = "graph"
    /\ Len(namedOperands) = 2
    /\ namedOperands[1].operand = namedOperands[2].operand
    /\ LET o == Producer(namedOperands[1].operand)
       IN Len(Inputs(o)) = 2 /\ Inputs(o)[1] = Inputs(o)[2]
    /\ Len(CallsTo("AddOutput")) = 2

\* Build has returned a graph in which one operand is consumed by two
\* operators.
C19_WitnessFanOut ==
    /\ pc = "returned"
    /\ buildResult = "graph"
    /\ \E o, q \in Range(sorted) : \E x \in OperandIds :
          o # q /\ x \in Range(Inputs(o)) /\ x \in Range(Inputs(q))

\* C20: a construction call runs Validate() at most once on each operator it
\* allocated, and exactly once, with success, on each operator it leaves behind,
\* among them the producer of a non-error operand it returns; from the call of
\* Build to its return, through TopologicalSort, no Validate() is run and the
\* operators stay as they were validated.
C20_ValidateOnce ==
    /\ Constructed =>
          /\ NoDuplicates(lastCall.validated)
          /\ Len(lastCall.validated) = Len(lastCall.checks)
          /\ \A o \in CreatedByLastCall :
                /\ Occurrences(lastCall.validated, o - lastCall.ops0) = 1
                /\ \A i \in 1..Len(lastCall.validated) :
                      lastCall.validated[i] = o - lastCall.ops0 => lastCall.checks[i]
          /\ (lastCall.kind = "operand" /\ ~lastCall.retErr) =>
                Producer(lastCall.ret) \in CreatedByLastCall
    /\ lastCall.fn = "Build" => (lastCall.validated = <<>> /\ lastCall.checks = <<>>)
    /\ pc \in {"sort", "add", "output", "finish", "compile", "crashed"} => lastCall.fn = "Build"

\* Conv2d with a clamp activation has validated the two operators it built,
\* and a Build over its result has come to AddOutput.
C20_Witness ==
    /\ lastCall.fn = "Conv2d"
    /\ lastCall.validated = <<1, 2>>
    /\ lastCall.checks = <<TRUE, TRUE>>
C20_WitnessBuild ==
    /\ lastCall.fn = "Build"
    /\ pc = "output"
    /\ \E i \in 1..Len(sorted) : sorted[i] # NullOp /\ operators[sorted[i]].kind = "Clamp"

\* C21: in every state of a traversal of a graph with no cycle reachable from
\* the roots, the result has no duplicates, its elements are exactly the
\* finalized set, every finalized operator has the producers of all its inputs
\* in the finalized set, and every entry of the stack is an operator reachable
\* from a root.
C21_LoopInvariant ==
    (~CycleReachable) =>
        /\ NoDuplicates(result)
        /\ Range(result) = nodesDone
        /\ \A o \in nodesDone : ProducersOf(o) \subseteq nodesDone
        /\ \A i \in 1..Len(nodesToDo) : nodesToDo[i] \in ReachableFrom(RootSet)

\* A traversal is under way: an operator is finalized and is in the result,
\* an operator not yet finalized is on top of the stack, and a finalized one
\* still lies on the stack below it.
C21_Witness ==
    /\ pc = "sort"
    /\ ~CycleReachable
    /\ result # <<>>
    /\ Len(nodesToDo) >= 2
    /\ Top \notin nodesDone
    /\ \E i \in 1..Len(nodesToDo) : nodesToDo[i] \in nodesDone

====
